---- MODULE Spec2Model ----
(***************************************************************************)
(* State-machine model of the PrizeDistributor facade (class               *)
(* PrizeDistributor) and of initializePrizeDistributors.                   *)
(*                                                                         *)
(* JavaScript runs one callback at a time: an action of this model is one  *)
(* synchronous run of code between two suspension points (await).  A       *)
(* pending network call is a task whose pc names the call it waits for;    *)
(* the action that settles it draws the outcome (fulfilled or rejected)    *)
(* and runs the continuation up to the next await.                         *)
(***************************************************************************)
EXTENDS Integers, Sequences, FiniteSets, TLC

\* ------------------------------------------------------------------ bounds
MaxDrawId == 3
BufferCardinality == 2
MaxIds == 3
MaxChains == 3
MaxPrizes == 2
MaxApplications == 2

\* --------------------------------------------------------------- constants
Undefined == "undefined"
NoError == "none"

\* the facade's chain and the two lazily resolved handles
FacadeChainId == 1
OtherChainId == 2
HandleKeys == {"drawBuffer", "prizeDistributionsBuffer"}

VARIABLES
  signerOrProvider,     \* [kind: "signer" | "provider", chainId]  (readonly field)
  contractMetadataList, \* readonly field: sequence of ContractMetadata
  metadataField,        \* this.drawBuffer / this.prizeDistributionsBuffer
  contractField,        \* this.drawBufferContract / this.prizeDistributionsBufferContract
  cacheWrites,          \* per handle key: how often line 632 assigned the cache field
  drawRing,             \* on-chain draw buffer: [newest, count]
  pdRing,               \* on-chain prize distribution buffer: [newest, count]
  op,                   \* the facade operation last called
  phase,                \* "idle" | "running" | "returned"
  args,                 \* arguments of the operation (the current ones, for a recursion)
  reads,                \* the sibling reads of the current Promise.allSettled
  attempts,             \* calls of getDrawsAndPrizeDistributions in the current operation
  result,               \* [status, value, error] of the promise the operation returned
  pc,                   \* the await the operation's own code is suspended at
  netCalls,             \* the network calls the operation's own code has issued, in order
  calculateCalls,       \* the arguments of every calculateDrawResults call of the operation
  prepareCalls,         \* the arguments of every prepareClaims call of the operation
  facades               \* the facades initializePrizeDistributors has constructed

vars == <<signerOrProvider, contractMetadataList, metadataField, contractField,
          cacheWrites, drawRing, pdRing, op, phase, args, reads, attempts, result,
          pc, netCalls, calculateCalls, prepareCalls, facades>>

seqVars == <<pc, netCalls, calculateCalls, prepareCalls>>

facadeVars == <<signerOrProvider, contractMetadataList, facades>>
cacheVars == <<metadataField, contractField, cacheWrites>>
chainVars == <<drawRing, pdRing>>

\* ----------------------------------------------------------------- helpers
Max(a, b) == IF a >= b THEN a ELSE b
Min(a, b) == IF a <= b THEN a ELSE b

\* for (let i = a; i <= b; i++) ids.push(i)
PushRange(a, b) == [i \in 1..(IF b >= a THEN b - a + 1 ELSE 0) |-> a + i - 1]

\* ------------------------------------------------- the signer or provider
ReadOnlyProvider == [kind |-> "provider", chainId |-> FacadeChainId]
Bindings ==
  { ReadOnlyProvider,
    [kind |-> "signer", chainId |-> FacadeChainId],
    [kind |-> "signer", chainId |-> OtherChainId] }

\* ------------------------------------------------------- contract metadata
Metadata(type, chain, address) == [type |-> type, chainId |-> chain, address |-> address]

\* a metadata field that is still undefined
NoMetadata == Metadata(Undefined, 0, Undefined)

DrawBufferAddress == "0xDB"
PrizeDistributionBufferAddress == "0xPDB"

CoreContracts ==
  << Metadata("PrizeDistributor", FacadeChainId, "0xPD"),
     Metadata("DrawCalculator", FacadeChainId, "0xDC"),
     Metadata("DrawCalculatorTimelock", FacadeChainId, "0xTL") >>

CompleteList ==
  CoreContracts \o << Metadata("DrawBuffer", FacadeChainId, DrawBufferAddress),
                      Metadata("PrizeDistributionBuffer", FacadeChainId, PrizeDistributionBufferAddress) >>

\* the lists a facade may have been constructed with
MetadataLists ==
  { CompleteList,
    \* a second deployment of the draw buffer at another address
    CoreContracts \o << Metadata("DrawBuffer", FacadeChainId, "0xDB2"),
                        Metadata("DrawBuffer", FacadeChainId, DrawBufferAddress),
                        Metadata("PrizeDistributionBuffer", FacadeChainId, PrizeDistributionBufferAddress) >>,
    \* no prize distribution buffer in the list
    CoreContracts \o << Metadata("DrawBuffer", FacadeChainId, DrawBufferAddress) >> }

\* utils/getMetadataAndContract: filter by type, then by address; exactly one
\* match, else the lookup throws
getMetadataAndContract(contractType, list, address) ==
  LET ofType == SelectSeq(list, LAMBDA c : c.type = contractType)
      found == IF address = Undefined THEN ofType
               ELSE SelectSeq(ofType, LAMBDA c : c.address = address)
  IN IF Len(found) = 1
       THEN [ok |-> TRUE, metadata |-> found[1]]
       ELSE [ok |-> FALSE, metadata |-> NoMetadata]

ContractTypeOf(key) == IF key = "drawBuffer" THEN "DrawBuffer" ELSE "PrizeDistributionBuffer"

\* drawCalculatorContract.functions.getDrawBuffer() / getPrizeDistributionBuffer()
OnChainAddress(key) ==
  IF key = "drawBuffer" THEN DrawBufferAddress ELSE PrizeDistributionBufferAddress

\* ------------------------------------------------------- the on-chain rings
EmptyRing == [newest |-> 0, count |-> 0]
Oldest(ring) == ring.newest - ring.count + 1
InRing(ring, id) == ring.count > 0 /\ Oldest(ring) <= id /\ id <= ring.newest

\* a push: the first id is free, later ids are contiguous; a full ring drops
\* its oldest entry
RingPush(ring, first) ==
  IF ring.count = 0
    THEN [newest |-> first, count |-> 1]
    ELSE [newest |-> ring.newest + 1, count |-> Min(ring.count + 1, BufferCardinality)]

Draw(id) == [drawId |-> id, timestamp |-> 100 + id, winningRandomNumber |-> 1000 + id]
PrizeDistribution(id) == [numberOfPicks |-> 10 * id]

\* the protocol appends a draw
PushDraw ==
  /\ drawRing.newest < MaxDrawId
  /\ \E first \in 1..MaxDrawId : drawRing' = RingPush(drawRing, first)
  /\ UNCHANGED <<facadeVars, cacheVars, pdRing, op, phase, args, reads, attempts, result, seqVars>>

\* the protocol appends a prize distribution
PushPrizeDistribution ==
  /\ pdRing.newest < MaxDrawId
  /\ \E first \in 1..MaxDrawId : pdRing' = RingPush(pdRing, first)
  /\ UNCHANGED <<facadeVars, cacheVars, drawRing, op, phase, args, reads, attempts, result, seqVars>>

\* ---------------------------------------------------------- the read tasks
DrawBufferReads == {"getOldestDraw", "getNewestDraw", "getDraws", "getDraw"}
BatchReads == {"getDraws", "getPrizeDistributions"}

KeyOf(fn) == IF fn \in DrawBufferReads THEN "drawBuffer" ELSE "prizeDistributionsBuffer"

Settled(task) == task.pc \in {"fulfilled", "rejected"}
AllSettled(tasks) == \A i \in DOMAIN tasks : Settled(tasks[i])
AnyRejected(tasks) == \E i \in DOMAIN tasks : tasks[i].pc = "rejected"

\* The synchronous start of one read method.  getDraws and
\* getPrizeDistributions return [] for an empty id list.  Every other read
\* enters getAndSetEthersContract: a cached handle is returned (the contract
\* call follows), otherwise the address fetch is issued.
StartRead(fn, drawIds) ==
  IF fn \in BatchReads /\ Len(drawIds) = 0
    THEN [fn |-> fn, pc |-> "fulfilled", value |-> <<>>]
    ELSE [fn |-> fn,
          pc |-> IF contractField[KeyOf(fn)] # Undefined THEN "call" ELSE "address",
          value |-> <<>>]

\* the buffer contract's answer to a read; the buffer reverts when it holds
\* no such entry
ContractCall(fn, drawIds) ==
  LET ring == IF fn \in DrawBufferReads THEN drawRing ELSE pdRing
      Entry(id) == IF fn \in DrawBufferReads THEN Draw(id) ELSE PrizeDistribution(id)
      Bound(id) == IF fn \in DrawBufferReads
                     THEN Draw(id)
                     ELSE [prizeDistribution |-> PrizeDistribution(id), drawId |-> id]
  IN CASE fn \in {"getOldestDraw", "getOldestPrizeDistribution"} ->
            [ok |-> ring.count > 0, value |-> << Bound(Oldest(ring)) >>]
       [] fn \in {"getNewestDraw", "getNewestPrizeDistribution"} ->
            [ok |-> ring.count > 0, value |-> << Bound(ring.newest) >>]
       [] OTHER ->
            [ok |-> \A i \in DOMAIN drawIds : InRing(ring, drawIds[i]),
             value |-> [i \in DOMAIN drawIds |-> Entry(drawIds[i])]]

\* getAndSetEthersContract after `await getContractAddress()`: the address
\* fetch of read i settles; on success the metadata is looked up and both
\* cache fields are assigned, and the read goes on to its contract call.
getAndSetEthersContract(i) ==
  /\ phase = "running"
  /\ i \in DOMAIN reads
  /\ reads[i].pc = "address"
  /\ \E fetched \in BOOLEAN :
       LET key == KeyOf(reads[i].fn)
           found == getMetadataAndContract(ContractTypeOf(key), contractMetadataList,
                                           OnChainAddress(key))
       IN IF fetched /\ found.ok
            THEN /\ metadataField' = [metadataField EXCEPT ![key] = found.metadata]
                 /\ contractField' = [contractField EXCEPT ![key] = found.metadata.address]
                 /\ cacheWrites' = [cacheWrites EXCEPT ![key] = @ + 1]
                 /\ reads' = [reads EXCEPT ![i].pc = "call"]
            ELSE /\ reads' = [reads EXCEPT ![i].pc = "rejected"]
                 /\ UNCHANGED cacheVars
  /\ UNCHANGED <<facadeVars, chainVars, op, phase, args, attempts, result, seqVars>>

\* the contract call of read i settles
ContractCallSettles(i) ==
  /\ phase = "running"
  /\ i \in DOMAIN reads
  /\ reads[i].pc = "call"
  /\ \E delivered \in BOOLEAN :
       LET answer == ContractCall(reads[i].fn, args.drawIds)
       IN IF delivered /\ answer.ok
            THEN reads' = [reads EXCEPT ![i].pc = "fulfilled", ![i].value = answer.value]
            ELSE reads' = [reads EXCEPT ![i].pc = "rejected"]
  /\ UNCHANGED <<facadeVars, cacheVars, chainVars, op, phase, args, attempts, result, seqVars>>

\* ------------------------------------------------------------ the promises
Pending == [status |-> "pending", value |-> <<>>, error |-> NoError]
Fulfilled(v) == [status |-> "fulfilled", value |-> v, error |-> NoError]
Rejected(e) == [status |-> "rejected", value |-> <<>>, error |-> e]

\* draw and drawResults hold at most one record
NoArgs == [drawIds |-> <<>>, requested |-> <<>>, usersAddress |-> Undefined,
           draw |-> <<>>, drawResults |-> <<>>, normalizedBalance |-> <<>>,
           contracts |-> <<>>]

ResetTrace ==
  /\ netCalls' = <<>>
  /\ calculateCalls' = <<>>
  /\ prepareCalls' = <<>>

\* --------------------------------------------------------- getValidDrawIds
\* the lower bound taken with Math.min
validIdsMinOldest(settled) ==
  IF AnyRejected(settled)
    THEN <<>>
    ELSE LET oldestId == Min(settled[1].value[1].drawId, settled[3].value[1].drawId)
             newestId == Min(settled[4].value[1].drawId, settled[2].value[1].drawId)
         IN IF newestId < oldestId THEN <<>> ELSE PushRange(oldestId, newestId)

\* lines 341-366: the value getValidDrawIds returns for four settled reads
\* (oldest/newest prize distribution, oldest/newest draw, in this order)
validIds(settled) ==
  IF AnyRejected(settled)
    THEN <<>>
    ELSE LET oldestPrizeDistributionId == settled[1].value[1].drawId
             newestPrizeDistributionId == settled[2].value[1].drawId
             oldestDrawId == settled[3].value[1].drawId
             newestDrawId == settled[4].value[1].drawId
             oldestId == Max(oldestPrizeDistributionId, oldestDrawId)
             newestId == Min(newestDrawId, newestPrizeDistributionId)
         IN IF newestId < oldestId THEN <<>> ELSE PushRange(oldestId, newestId)

\* the call: all four reads are started before the first await
getValidDrawIds ==
  /\ phase # "running"
  /\ op' = "getValidDrawIds"
  /\ phase' = "running"
  /\ args' = NoArgs
  /\ reads' = << StartRead("getOldestPrizeDistribution", <<>>),
                 StartRead("getNewestPrizeDistribution", <<>>),
                 StartRead("getOldestDraw", <<>>),
                 StartRead("getNewestDraw", <<>>) >>
  /\ attempts' = 0
  /\ result' = Pending
  /\ pc' = "allSettled"
  /\ ResetTrace
  /\ UNCHANGED <<facadeVars, cacheVars, chainVars>>

\* the join made with Promise.all: a rejected read rejects the operation
getValidDrawIdsJoinFailFast ==
  /\ op = "getValidDrawIds"
  /\ phase = "running"
  /\ AllSettled(reads)
  /\ result' = IF AnyRejected(reads) THEN Rejected("NetworkError") ELSE Fulfilled(validIds(reads))
  /\ phase' = "returned"
  /\ UNCHANGED <<facadeVars, cacheVars, chainVars, op, args, reads, attempts, seqVars>>

\* Promise.allSettled resolves: every read has settled
getValidDrawIdsJoin ==
  /\ op = "getValidDrawIds"
  /\ phase = "running"
  /\ AllSettled(reads)
  /\ result' = Fulfilled(validIds(reads))
  /\ phase' = "returned"
  /\ UNCHANGED <<facadeVars, cacheVars, chainVars, op, args, reads, attempts, seqVars>>

\* ------------------------------------------- the per-buffer draw id lists
\* the upper bound left out of the loop
drawIdsBetweenExclusive(settled) ==
  IF AnyRejected(settled)
    THEN <<>>
    ELSE PushRange(settled[1].value[1].drawId, settled[2].value[1].drawId - 1)

\* lines 276-288 and 305-319: [] if either read was rejected, otherwise the
\* ids from the oldest id read to the newest id read
drawIdsBetween(settled) ==
  IF AnyRejected(settled)
    THEN <<>>
    ELSE LET oldestId == settled[1].value[1].drawId
             newestId == settled[2].value[1].drawId
         IN PushRange(oldestId, newestId)

\* the call: both reads are started before the first await
getDrawIdsFromDrawBuffer ==
  /\ phase # "running"
  /\ op' = "getDrawIdsFromDrawBuffer"
  /\ phase' = "running"
  /\ args' = NoArgs
  /\ reads' = << StartRead("getOldestDraw", <<>>), StartRead("getNewestDraw", <<>>) >>
  /\ attempts' = 0
  /\ result' = Pending
  /\ pc' = "allSettled"
  /\ ResetTrace
  /\ UNCHANGED <<facadeVars, cacheVars, chainVars>>

getDrawIdsFromPrizeDistributionBuffer ==
  /\ phase # "running"
  /\ op' = "getDrawIdsFromPrizeDistributionBuffer"
  /\ phase' = "running"
  /\ args' = NoArgs
  /\ reads' = << StartRead("getOldestPrizeDistribution", <<>>),
                 StartRead("getNewestPrizeDistribution", <<>>) >>
  /\ attempts' = 0
  /\ result' = Pending
  /\ pc' = "allSettled"
  /\ ResetTrace
  /\ UNCHANGED <<facadeVars, cacheVars, chainVars>>

\* the join made with Promise.all: the first rejection ends the wait
getDrawIdsFromBufferJoinFailFast ==
  /\ op \in {"getDrawIdsFromDrawBuffer", "getDrawIdsFromPrizeDistributionBuffer"}
  /\ phase = "running"
  /\ AllSettled(reads) \/ AnyRejected(reads)
  /\ result' = Fulfilled(drawIdsBetween(reads))
  /\ phase' = "returned"
  /\ UNCHANGED <<facadeVars, cacheVars, chainVars, op, args, reads, attempts, seqVars>>

\* Promise.allSettled resolves: both reads have settled
getDrawIdsFromBufferJoin ==
  /\ op \in {"getDrawIdsFromDrawBuffer", "getDrawIdsFromPrizeDistributionBuffer"}
  /\ phase = "running"
  /\ AllSettled(reads)
  /\ result' = Fulfilled(drawIdsBetween(reads))
  /\ phase' = "returned"
  /\ UNCHANGED <<facadeVars, cacheVars, chainVars, op, args, reads, attempts, seqVars>>

\* ------------------------------------------- getDrawsAndPrizeDistributions
RECURSIVE insertAscending(_, _)
insertAscending(x, sorted) ==
  IF sorted = <<>> THEN <<x>>
  ELSE IF x - Head(sorted) < 0 THEN <<x>> \o sorted
  ELSE <<Head(sorted)>> \o insertAscending(x, Tail(sorted))

\* drawIds.sort((a, b) => a - b)
RECURSIVE sortAscending(_)
sortAscending(drawIds) ==
  IF drawIds = <<>> THEN <<>>
  ELSE insertAscending(Head(drawIds), sortAscending(Tail(drawIds)))

\* slice(0, end) for 0 <= end <= length, and slice(0, -1) of an empty array
slice0(list, end) == SubSeq(list, 1, end)

\* the retry without the sort: the last id is dropped, not the largest
retryDrawIdsUnsorted(drawIds) == slice0(drawIds, Len(drawIds) - 1)

\* the retry with slice(0, length): nothing is dropped
retryDrawIdsWhole(drawIds) == slice0(sortAscending(drawIds), Len(drawIds))

\* line 387: the id list of the retry
retryDrawIds(drawIds) == slice0(sortAscending(drawIds), Len(drawIds) - 1)

\* lines 391-399: one pair per draw, the prize distribution of the same index
drawsAndPrizeDistributions(draws, prizeDistributions) ==
  [index \in DOMAIN draws |->
     [draw |-> draws[index], prizeDistribution |-> prizeDistributions[index]]]

\* the id lists a caller passes
IdLists == UNION { [1..n -> 1..MaxDrawId] : n \in 0..MaxIds }

PairReads(drawIds) ==
  << StartRead("getDraws", drawIds), StartRead("getPrizeDistributions", drawIds) >>

\* the call: both batch fetches are started before the first await
getDrawsAndPrizeDistributions ==
  /\ phase # "running"
  /\ \E drawIds \in IdLists :
       /\ args' = [NoArgs EXCEPT !.drawIds = drawIds, !.requested = drawIds]
       /\ reads' = PairReads(drawIds)
  /\ op' = "getDrawsAndPrizeDistributions"
  /\ phase' = "running"
  /\ attempts' = 1
  /\ result' = Pending
  /\ pc' = "allSettled"
  /\ ResetTrace
  /\ UNCHANGED <<facadeVars, cacheVars, chainVars>>

\* Promise.allSettled resolves: a rejected fetch makes the recursive call
\* (whose two fetches start at once), otherwise the pairs are returned
getDrawsAndPrizeDistributionsJoin ==
  /\ op = "getDrawsAndPrizeDistributions"
  /\ phase = "running"
  /\ AllSettled(reads)
  /\ IF AnyRejected(reads)
       THEN LET drawIds == retryDrawIds(args.drawIds)
            IN /\ args' = [args EXCEPT !.drawIds = drawIds]
               /\ reads' = PairReads(drawIds)
               /\ attempts' = attempts + 1
               /\ UNCHANGED <<phase, result>>
       ELSE /\ result' = Fulfilled(drawsAndPrizeDistributions(reads[1].value, reads[2].value))
            /\ phase' = "returned"
            /\ UNCHANGED <<args, reads, attempts>>
  /\ UNCHANGED <<facadeVars, cacheVars, chainVars, op, seqVars>>

\* ------------------------------------------------------------- validation
UserAddress == "0xUser"
UserAddresses == {UserAddress, "not-an-address"}

\* utils/validation validateAddress: throws for a malformed address
isAddress(usersAddress) == usersAddress = UserAddress

\* utils/validation validateIsSigner: throws unless bound to a signer
validateIsSigner(binding) == binding.kind = "signer"

\* utils/validation validateSignerNetwork: throws unless the signer's network
\* is the given chain
validateSignerNetwork(signerChainId, chain) == signerChainId = chain

\* lines 104-105: this.chainId, this.address
chainId == getMetadataAndContract("PrizeDistributor", contractMetadataList, Undefined).metadata.chainId
address == getMetadataAndContract("PrizeDistributor", contractMetadataList, Undefined).metadata.address

\* the address alone
idAddressOnly(facade) == facade.address

\* id(), lines 670-672: `${address}-${chainId}` of the distributor's metadata
id(facade) == facade.address \o "-" \o ToString(facade.chainId)

\* the operation's promise settles; pc stays at the await it ended at
Finish(outcome) ==
  /\ phase' = "returned"
  /\ result' = outcome
  /\ UNCHANGED pc

\* getUsersAddress, lines 679-682, called first thing by a method: a provider
\* is refused, a signer is asked for its address
getUsersAddress(method) ==
  IF validateIsSigner(signerOrProvider)
    THEN /\ phase' = "running"
         /\ pc' = method \o ":getAddress"
         /\ netCalls' = <<"signer.getAddress">>
         /\ result' = Pending
    ELSE /\ phase' = "returned"
         /\ pc' = method
         /\ netCalls' = <<>>
         /\ result' = Rejected("SignerRequiredError")

\* ------------------------------------------------------------ getUsersPrizes
Balances == {0, 7}
TotalValues == {0, 5}

DrawResults(drawId, totalValue) ==
  [drawId |-> drawId, totalValue |-> totalValue,
   prizes |-> IF totalValue = 0 THEN <<>>
              ELSE << [amount |-> totalValue, tierIndex |-> 0, pick |-> 1] >>]

\* the zero-balance shortcut left out: the routine is always invoked
usersPrizesAlwaysCalculated(prizeDistribution, draw, user, calculated) ==
  [invoked |-> TRUE, drawResults |-> calculated]

\* lines 549-562: the shortcut for a zero balance, otherwise the result of
\* calculateDrawResults(prizeDistribution, draw, user), here `calculated`
usersPrizes(prizeDistribution, draw, user, calculated) ==
  IF user.normalizedBalances[1] = 0
    THEN [invoked |-> FALSE, drawResults |-> DrawResults(draw.drawId, 0)]
    ELSE [invoked |-> TRUE, drawResults |-> calculated]

\* the call, up to the await of getPrizeDistribution(draw.drawId)
getUsersPrizes ==
  /\ phase # "running"
  /\ \E usersAddress \in UserAddresses, drawId \in 1..MaxDrawId :
       /\ args' = [NoArgs EXCEPT !.usersAddress = usersAddress, !.draw = << Draw(drawId) >>,
                                 !.drawIds = <<drawId>>]
       /\ reads' = << StartRead("getPrizeDistribution", <<drawId>>) >>
  /\ op' = "getUsersPrizes"
  /\ phase' = "running"
  /\ pc' = "getUsersPrizes:getPrizeDistribution"
  /\ attempts' = 0
  /\ result' = Pending
  /\ ResetTrace
  /\ UNCHANGED <<facadeVars, cacheVars, chainVars>>

\* lines 539-545: the prize distribution has settled; a failure propagates,
\* otherwise the normalized balance is requested
getUsersPrizesFetchBalance ==
  /\ phase = "running"
  /\ pc = "getUsersPrizes:getPrizeDistribution"
  /\ Settled(reads[1])
  /\ IF reads[1].pc = "rejected"
       THEN /\ Finish(Rejected("CallFailed"))
            /\ UNCHANGED netCalls
       ELSE /\ pc' = "getUsersPrizes:getNormalizedBalances"
            /\ netCalls' = Append(netCalls, "drawCalculator.getNormalizedBalancesForDrawIds")
            /\ UNCHANGED <<phase, result>>
  /\ UNCHANGED <<facadeVars, cacheVars, chainVars, op, args, reads, attempts,
                 calculateCalls, prepareCalls>>

\* lines 547-562: the balance has settled.  Called by claimPrizesByDraw, the
\* result is passed on to claimPrizesByDrawResults (line 136), which asks the
\* signer for its address again.
getUsersPrizesReturn ==
  /\ phase = "running"
  /\ pc = "getUsersPrizes:getNormalizedBalances"
  /\ \E delivered \in BOOLEAN, normalizedBalance \in Balances, totalValue \in TotalValues :
       IF ~delivered
         THEN /\ Finish(Rejected("CallFailed"))
              /\ UNCHANGED <<args, netCalls, calculateCalls>>
         ELSE LET draw == args.draw[1]
                  prizeDistribution == reads[1].value[1]
                  user == [address |-> args.usersAddress,
                           normalizedBalances |-> <<normalizedBalance>>]
                  prizes == usersPrizes(prizeDistribution, draw, user,
                                        DrawResults(draw.drawId, totalValue))
              IN /\ calculateCalls' =
                      IF prizes.invoked
                        THEN Append(calculateCalls,
                                    [prizeDistribution |-> prizeDistribution,
                                     draw |-> draw, user |-> user])
                        ELSE calculateCalls
                 /\ IF op \in {"getUsersPrizes", "getUsersPrizesByDrawId"}
                      THEN /\ Finish(Fulfilled(<< prizes.drawResults >>))
                           /\ args' = [args EXCEPT !.normalizedBalance = <<normalizedBalance>>]
                           /\ UNCHANGED netCalls
                      ELSE /\ args' = [args EXCEPT !.normalizedBalance = <<normalizedBalance>>,
                                                   !.drawResults = << prizes.drawResults >>]
                           /\ pc' = "claimPrizesByDrawResults:getAddress"
                           /\ netCalls' = Append(netCalls, "signer.getAddress")
                           /\ UNCHANGED <<phase, result>>
  /\ UNCHANGED <<facadeVars, cacheVars, chainVars, op, reads, attempts, prepareCalls>>

\* getDraw(drawId), lines 407-415: the call, up to the await of the draw
\* buffer handle or of the contract call
getDraw ==
  /\ phase # "running"
  /\ \E drawId \in 1..MaxDrawId :
       /\ args' = [NoArgs EXCEPT !.drawIds = <<drawId>>]
       /\ reads' = << StartRead("getDraw", <<drawId>>) >>
  /\ op' = "getDraw"
  /\ phase' = "running"
  /\ pc' = "getDraw:getDraw"
  /\ attempts' = 0
  /\ result' = Pending
  /\ ResetTrace
  /\ UNCHANGED <<facadeVars, cacheVars, chainVars>>

\* lines 410-414: the draw built from the first entry of the response
drawOf(response) ==
  [drawId |-> response[1].drawId,
   timestamp |-> response[1].timestamp,
   winningRandomNumber |-> response[1].winningRandomNumber]

\* the read has settled: the draw is returned, a failure propagates
getDrawReturn ==
  /\ op = "getDraw"
  /\ phase = "running"
  /\ pc = "getDraw:getDraw"
  /\ Settled(reads[1])
  /\ Finish(IF reads[1].pc = "rejected" THEN Rejected("CallFailed")
            ELSE Fulfilled(<< drawOf(reads[1].value) >>))
  /\ UNCHANGED <<facadeVars, cacheVars, chainVars, op, args, reads, attempts,
                 netCalls, calculateCalls, prepareCalls>>

\* getUsersPrizesByDrawId(usersAddress, drawId), line 572: the call, up to
\* the await of getDraw(drawId)
getUsersPrizesByDrawId ==
  /\ phase # "running"
  /\ \E usersAddress \in UserAddresses, drawId \in 1..MaxDrawId :
       /\ args' = [NoArgs EXCEPT !.usersAddress = usersAddress, !.drawIds = <<drawId>>]
       /\ reads' = << StartRead("getDraw", <<drawId>>) >>
  /\ op' = "getUsersPrizesByDrawId"
  /\ phase' = "running"
  /\ pc' = "getUsersPrizesByDrawId:getDraw"
  /\ attempts' = 0
  /\ result' = Pending
  /\ ResetTrace
  /\ UNCHANGED <<facadeVars, cacheVars, chainVars>>

\* line 573: the draw has settled; a failure propagates, otherwise
\* getUsersPrizes is called with the draw fetched
getUsersPrizesByDrawIdGetUsersPrizes ==
  /\ phase = "running"
  /\ pc = "getUsersPrizesByDrawId:getDraw"
  /\ Settled(reads[1])
  /\ IF reads[1].pc = "rejected"
       THEN /\ Finish(Rejected("CallFailed"))
            /\ UNCHANGED <<args, reads>>
       ELSE /\ args' = [args EXCEPT !.draw = << drawOf(reads[1].value) >>]
            /\ reads' = << StartRead("getPrizeDistribution", <<drawOf(reads[1].value).drawId>>) >>
            /\ pc' = "getUsersPrizes:getPrizeDistribution"
            /\ UNCHANGED <<phase, result>>
  /\ UNCHANGED <<facadeVars, cacheVars, chainVars, op, attempts,
                 netCalls, calculateCalls, prepareCalls>>

\* ------------------------------------------------------------------ claims
DrawResultsInputs ==
  { DrawResults(drawId, totalValue) : drawId \in 1..MaxDrawId, totalValue \in TotalValues }

\* the check of the total value left out
claimDecisionWithoutZeroCheck(signerChainId, drawResults) ==
  IF ~validateSignerNetwork(signerChainId, chainId) THEN "NetworkMismatchError"
  ELSE "submit"

\* the check of the signer's network left out
claimDecisionWithoutNetworkCheck(signerChainId, drawResults) ==
  IF drawResults.totalValue = 0 THEN "NothingToClaimError"
  ELSE "submit"

\* lines 147-151: the two checks between the signer's address and the claim
claimDecision(signerChainId, drawResults) ==
  IF ~validateSignerNetwork(signerChainId, chainId) THEN "NetworkMismatchError"
  ELSE IF drawResults.totalValue = 0 THEN "NothingToClaimError"
  ELSE "submit"

\* the call of claimPrizesByDrawResults
claimPrizesByDrawResults ==
  /\ phase # "running"
  /\ \E drawResults \in DrawResultsInputs :
       args' = [NoArgs EXCEPT !.drawResults = <<drawResults>>]
  /\ op' = "claimPrizesByDrawResults"
  /\ getUsersAddress("claimPrizesByDrawResults")
  /\ reads' = <<>>
  /\ attempts' = 0
  /\ calculateCalls' = <<>>
  /\ prepareCalls' = <<>>
  /\ UNCHANGED <<facadeVars, cacheVars, chainVars>>

\* line 146-147: the signer's address has settled; validateSignerNetwork reads
\* the signer's network
claimPrizesByDrawResultsValidateNetwork ==
  /\ phase = "running"
  /\ pc = "claimPrizesByDrawResults:getAddress"
  /\ \E delivered \in BOOLEAN :
       IF delivered
         THEN /\ args' = [args EXCEPT !.usersAddress = UserAddress]
              /\ pc' = "claimPrizesByDrawResults:getChainId"
              /\ netCalls' = Append(netCalls, "signer.getChainId")
              /\ UNCHANGED <<phase, result>>
         ELSE /\ Finish(Rejected("CallFailed"))
              /\ UNCHANGED <<args, netCalls>>
  /\ UNCHANGED <<facadeVars, cacheVars, chainVars, op, reads, attempts,
                 calculateCalls, prepareCalls>>

\* lines 147-161: the signer's network has settled; after both checks the
\* claim is prepared and the transaction submitted
claimPrizesByDrawResultsSubmit ==
  /\ phase = "running"
  /\ pc = "claimPrizesByDrawResults:getChainId"
  /\ \E delivered \in BOOLEAN :
       LET drawResults == args.drawResults[1]
           decision == claimDecision(signerOrProvider.chainId, drawResults)
       IN IF ~delivered
            THEN /\ Finish(Rejected("CallFailed"))
                 /\ UNCHANGED <<netCalls, prepareCalls>>
            ELSE IF decision # "submit"
            THEN /\ Finish(Rejected(decision))
                 /\ UNCHANGED <<netCalls, prepareCalls>>
            ELSE /\ prepareCalls' = Append(prepareCalls,
                                           [user |-> [address |-> args.usersAddress],
                                            drawResults |-> <<drawResults>>])
                 /\ netCalls' = Append(netCalls, "prizeDistributor.claim")
                 /\ pc' = "claimPrizesByDrawResults:claim"
                 /\ UNCHANGED <<phase, result>>
  /\ UNCHANGED <<facadeVars, cacheVars, chainVars, op, args, reads, attempts, calculateCalls>>

\* the claim transaction settles
claimPrizesByDrawResultsReturn ==
  /\ phase = "running"
  /\ pc = "claimPrizesByDrawResults:claim"
  /\ \E delivered \in BOOLEAN :
       Finish(IF delivered THEN Fulfilled(<< [to |-> address, drawIds |-> <<args.drawResults[1].drawId>>] >>)
              ELSE Rejected("CallFailed"))
  /\ UNCHANGED <<facadeVars, cacheVars, chainVars, op, args, reads, attempts,
                 netCalls, calculateCalls, prepareCalls>>

\* the call of claimPrizesByDraw
claimPrizesByDraw ==
  /\ phase # "running"
  /\ \E drawId \in 1..MaxDrawId :
       args' = [NoArgs EXCEPT !.draw = << Draw(drawId) >>, !.drawIds = <<drawId>>]
  /\ op' = "claimPrizesByDraw"
  /\ getUsersAddress("claimPrizesByDraw")
  /\ reads' = <<>>
  /\ attempts' = 0
  /\ calculateCalls' = <<>>
  /\ prepareCalls' = <<>>
  /\ UNCHANGED <<facadeVars, cacheVars, chainVars>>

\* lines 133-135: the signer's address has settled; getUsersPrizes is called
claimPrizesByDrawGetUsersPrizes ==
  /\ phase = "running"
  /\ pc = "claimPrizesByDraw:getAddress"
  /\ \E delivered \in BOOLEAN :
       IF delivered
         THEN /\ args' = [args EXCEPT !.usersAddress = UserAddress]
              /\ reads' = << StartRead("getPrizeDistribution", args.drawIds) >>
              /\ pc' = "getUsersPrizes:getPrizeDistribution"
              /\ UNCHANGED <<phase, result>>
         ELSE /\ Finish(Rejected("CallFailed"))
              /\ UNCHANGED <<args, reads>>
  /\ UNCHANGED <<facadeVars, cacheVars, chainVars, op, attempts,
                 netCalls, calculateCalls, prepareCalls>>

\* ------------------------------------------------- address-validated reads
\* the contract call issued before the address is validated
addressValidatedReadCallFirst(usersAddress, call) ==
  [error |-> IF isAddress(usersAddress) THEN NoError ELSE "AddressValidationError",
   issued |-> <<call>>]

\* lines 490-492, 522-524, 583-586: validateAddress, then the contract call
addressValidatedRead(usersAddress, call) ==
  IF isAddress(usersAddress)
    THEN [error |-> NoError, issued |-> <<call>>]
    ELSE [error |-> "AddressValidationError", issued |-> <<>>]

ValidatedReads ==
  [getUsersClaimedAmount |-> "prizeDistributor.getDrawPayoutBalanceOf",
   getUsersNormalizedBalancesForDrawIds |-> "drawCalculator.getNormalizedBalancesForDrawIds",
   getUsersClaimedEvents |-> "prizeDistributor.queryFilter"]

\* the call of getUsersClaimedAmount, getUsersNormalizedBalancesForDrawIds or
\* getUsersClaimedEvents
validatedRead ==
  /\ phase # "running"
  /\ \E method \in DOMAIN ValidatedReads, usersAddress \in UserAddresses :
       LET read == addressValidatedRead(usersAddress, ValidatedReads[method])
       IN /\ op' = method
          /\ args' = [NoArgs EXCEPT !.usersAddress = usersAddress]
          /\ pc' = method
          /\ netCalls' = read.issued
          /\ phase' = IF read.error = NoError THEN "running" ELSE "returned"
          /\ result' = IF read.error = NoError THEN Pending ELSE Rejected(read.error)
  /\ reads' = <<>>
  /\ attempts' = 0
  /\ calculateCalls' = <<>>
  /\ prepareCalls' = <<>>
  /\ UNCHANGED <<facadeVars, cacheVars, chainVars>>

\* the contract call of an address-validated read settles
validatedReadReturn ==
  /\ phase = "running"
  /\ pc \in DOMAIN ValidatedReads
  /\ \E delivered \in BOOLEAN :
       Finish(IF delivered THEN Fulfilled(<<>>) ELSE Rejected("CallFailed"))
  /\ UNCHANGED <<facadeVars, cacheVars, chainVars, op, args, reads, attempts,
                 netCalls, calculateCalls, prepareCalls>>

\* the call of getClaimedEvents
getClaimedEvents ==
  /\ phase # "running"
  /\ op' = "getClaimedEvents"
  /\ args' = NoArgs
  /\ getUsersAddress("getClaimedEvents")
  /\ reads' = <<>>
  /\ attempts' = 0
  /\ calculateCalls' = <<>>
  /\ prepareCalls' = <<>>
  /\ UNCHANGED <<facadeVars, cacheVars, chainVars>>

\* lines 170-172: the signer's address has settled; getUsersClaimedEvents
\* validates it and queries the events
getClaimedEventsGetUsersClaimedEvents ==
  /\ phase = "running"
  /\ pc = "getClaimedEvents:getAddress"
  /\ \E delivered \in BOOLEAN :
       LET read == addressValidatedRead(UserAddress, ValidatedReads["getUsersClaimedEvents"])
       IN IF ~delivered
            THEN /\ Finish(Rejected("CallFailed"))
                 /\ UNCHANGED <<args, netCalls>>
            ELSE /\ args' = [args EXCEPT !.usersAddress = UserAddress]
                 /\ netCalls' = netCalls \o read.issued
                 /\ IF read.error = NoError
                      THEN /\ pc' = "getUsersClaimedEvents"
                           /\ UNCHANGED <<phase, result>>
                      ELSE Finish(Rejected(read.error))
  /\ UNCHANGED <<facadeVars, cacheVars, chainVars, op, reads, attempts,
                 calculateCalls, prepareCalls>>

\* ----------------------------------------------- initializePrizeDistributors
ChainIds == 1..MaxChains

AddressOn(name, chain) == "0x" \o name \o ToString(chain)

\* what is deployed on one chain of a linked contract list
Deployments == {"none", "complete", "noTimelock", "twoDrawBuffers"}

Deployment(chain, kind) ==
  LET core == << Metadata("PrizeDistributor", chain, AddressOn("PD", chain)),
                 Metadata("DrawCalculator", chain, AddressOn("DC", chain)) >>
      timelock == << Metadata("DrawCalculatorTimelock", chain, AddressOn("TL", chain)) >>
      buffers == << Metadata("DrawBuffer", chain, AddressOn("DB", chain)),
                    Metadata("PrizeDistributionBuffer", chain, AddressOn("PDB", chain)),
                    Metadata("Ticket", chain, AddressOn("T", chain)) >>
      otherDrawBuffer == << Metadata("DrawBuffer", chain, AddressOn("DBx", chain)) >>
  IN CASE kind = "none" -> <<>>
       [] kind = "complete" -> core \o timelock \o buffers
       [] kind = "noTimelock" -> core \o buffers
       [] OTHER -> otherDrawBuffer \o core \o timelock \o buffers

RECURSIVE FlatList(_, _)
FlatList(kinds, chain) ==
  IF chain > MaxChains THEN <<>>
  ELSE Deployment(chain, kinds[chain]) \o FlatList(kinds, chain + 1)

\* the linked contract lists a caller passes
FlatLists == { FlatList(kinds, 1) : kinds \in [ChainIds -> Deployments] }

\* signersOrProviders: one provider per chain
signersOrProviders == [chain \in ChainIds |-> [kind |-> "provider", chainId |-> chain]]

\* utils/getContractsByType
getContractsByType(contracts, contractType) ==
  SelectSeq(contracts, LAMBDA c : c.type = contractType)

\* Object.keys(sortContractsByChainId(contracts)).map(Number): the chain ids
\* of the contracts, ascending
chainIdsOf(contracts) ==
  SelectSeq([chain \in ChainIds |-> chain],
            LAMBDA chain : \E k \in DOMAIN contracts : contracts[k].chainId = chain)

\* fetchClaimableDrawAddressesByChainId, lines 829-852: what a delivered batch
\* returns, one getDrawCalculator() answer per distributor of the chain
claimableDrawAddresses(chain, prizeDistributorsContracts) ==
  [chainId |-> chain,
   addressesByClaimableDraw |->
     [k \in DOMAIN prizeDistributorsContracts |->
        [prizeDistributor |-> prizeDistributorsContracts[k].address,
         drawCalculator |-> AddressOn("DC", chain)]]]

\* the responses of the failed batches skipped instead of thrown
collectAddressesTolerant(responses) ==
  [threw |-> FALSE,
   addresses |-> LET fulfilled == SelectSeq(responses, LAMBDA r : r.pc = "fulfilled")
                 IN [k \in DOMAIN fulfilled |-> fulfilled[k].value[1]]]

\* lines 735-745: the fulfilled responses are collected, a rejected one throws
collectAddresses(responses) ==
  IF AnyRejected(responses)
    THEN [threw |-> TRUE, addresses |-> <<>>]
    ELSE [threw |-> FALSE, addresses |-> [k \in DOMAIN responses |-> responses[k].value[1]]]

\* the calculator addresses fetched for one distributor (lines 748-753)
childrenOf(addresses, contract) ==
  LET ofChain == SelectSeq(addresses, LAMBDA a : a.chainId = contract.chainId)
      answers == IF ofChain = <<>> THEN <<>>
                 ELSE SelectSeq(ofChain[Len(ofChain)].addressesByClaimableDraw,
                                LAMBDA a : a.prizeDistributor = contract.address)
  IN [k \in DOMAIN answers |-> answers[k].drawCalculator]

\* utils/extendContractWithChildren: every contract of the type gets the
\* addresses of its children
extendContractWithChildren(contracts, addresses, contractType) ==
  [k \in DOMAIN contracts |->
     IF contracts[k].type = contractType
       THEN [type |-> contracts[k].type, chainId |-> contracts[k].chainId,
             address |-> contracts[k].address,
             children |-> childrenOf(addresses, contracts[k])]
       ELSE contracts[k]]

\* utils/sortContractsByContractTypeAndChildren: one list per contract of the
\* type, the contract followed by its children on the same chain
sortContractsByContractTypeAndChildren(contracts, contractType) ==
  LET parents == getContractsByType(contracts, contractType)
  IN [k \in DOMAIN parents |->
        << parents[k] >> \o
        SelectSeq(contracts,
                  LAMBDA c : /\ c.chainId = parents[k].chainId
                             /\ \E i \in DOMAIN parents[k].children :
                                  parents[k].children[i] = c.address)]

\* metadatas.find((contract) => contract.chainId === chainId): the first
\* match, if any
firstOnChain(metadatas, chain) ==
  LET matches == SelectSeq(metadatas, LAMBDA contract : contract.chainId = chain)
  IN IF matches = <<>> THEN <<>> ELSE << matches[1] >>

\* the DrawCalculatorTimelock pushed first
finalContractListTimelockFirst(contracts, contractList) ==
  LET chain == contractList[1].chainId
  IN contractList
       \o firstOnChain(getContractsByType(contracts, "DrawCalculatorTimelock"), chain)
       \o firstOnChain(getContractsByType(contracts, "DrawBuffer"), chain)
       \o firstOnChain(getContractsByType(contracts, "PrizeDistributionBuffer"), chain)
       \o firstOnChain(getContractsByType(contracts, "Ticket"), chain)

\* lines 777-813: the grouped list followed by the first DrawBuffer,
\* PrizeDistributionBuffer, Ticket and DrawCalculatorTimelock of its chain
finalContractList(contracts, contractList) ==
  LET chain == contractList[1].chainId
  IN contractList
       \o firstOnChain(getContractsByType(contracts, "DrawBuffer"), chain)
       \o firstOnChain(getContractsByType(contracts, "PrizeDistributionBuffer"), chain)
       \o firstOnChain(getContractsByType(contracts, "Ticket"), chain)
       \o firstOnChain(getContractsByType(contracts, "DrawCalculatorTimelock"), chain)

\* the constructor, lines 80-122: it throws unless the list holds exactly one
\* PrizeDistributor, DrawCalculator and DrawCalculatorTimelock
constructs(list) ==
  /\ getMetadataAndContract("PrizeDistributor", list, Undefined).ok
  /\ getMetadataAndContract("DrawCalculator", list, Undefined).ok
  /\ getMetadataAndContract("DrawCalculatorTimelock", list, Undefined).ok

PrizeDistributor(binding, list) ==
  LET prizeDistributorsMetadata == getMetadataAndContract("PrizeDistributor", list, Undefined).metadata
  IN [signerOrProvider |-> binding,
      contractMetadataList |-> list,
      chainId |-> prizeDistributorsMetadata.chainId,
      address |-> prizeDistributorsMetadata.address]

\* the call: one batch per chain with a distributor, all issued at once
initializePrizeDistributors ==
  /\ phase # "running"
  /\ \E contracts \in FlatLists :
       LET prizeDistributorsContracts == getContractsByType(contracts, "PrizeDistributor")
           chainIds == chainIdsOf(prizeDistributorsContracts)
       IN /\ args' = [NoArgs EXCEPT !.contracts = contracts]
          /\ reads' = [k \in DOMAIN chainIds |->
                         [fn |-> "fetchClaimableDrawAddressesByChainId", pc |-> "batch",
                          value |-> <<>>]]
  /\ op' = "initializePrizeDistributors"
  /\ phase' = "running"
  /\ pc' = "allSettled"
  /\ attempts' = 0
  /\ result' = Pending
  /\ facades' = <<>>
  /\ ResetTrace
  /\ UNCHANGED <<signerOrProvider, contractMetadataList, cacheVars, chainVars>>

\* the batch of the i-th chain settles
fetchClaimableDrawAddressesByChainId(i) ==
  /\ op = "initializePrizeDistributors"
  /\ phase = "running"
  /\ i \in DOMAIN reads
  /\ reads[i].pc = "batch"
  /\ \E delivered \in BOOLEAN :
       LET prizeDistributorsContracts == getContractsByType(args.contracts, "PrizeDistributor")
           chain == chainIdsOf(prizeDistributorsContracts)[i]
           answer == claimableDrawAddresses(chain,
                       SelectSeq(prizeDistributorsContracts, LAMBDA c : c.chainId = chain))
       IN IF delivered
            THEN reads' = [reads EXCEPT ![i].pc = "fulfilled", ![i].value = <<answer>>]
            ELSE reads' = [reads EXCEPT ![i].pc = "rejected"]
  /\ UNCHANGED <<facadeVars, cacheVars, chainVars, op, phase, args, attempts, result, seqVars>>

\* lines 731-818, after Promise.allSettled: collect or throw, link, append,
\* and construct one facade per final list; a constructor that throws ends
\* the construction
initializePrizeDistributorsLink ==
  /\ op = "initializePrizeDistributors"
  /\ phase = "running"
  /\ AllSettled(reads)
  /\ LET collected == collectAddresses(reads)
         contractsWithChildren ==
           extendContractWithChildren(args.contracts, collected.addresses, "PrizeDistributor")
         sortedContractLists ==
           sortContractsByContractTypeAndChildren(contractsWithChildren, "PrizeDistributor")
         finalContractLists ==
           [k \in DOMAIN sortedContractLists |->
              finalContractList(args.contracts, sortedContractLists[k])]
         thrower == { k \in DOMAIN finalContractLists : ~constructs(finalContractLists[k]) }
         built == IF thrower = {} THEN Len(finalContractLists)
                  ELSE (CHOOSE k \in thrower : \A j \in thrower : k <= j) - 1
         constructed ==
           [k \in 1..built |->
              PrizeDistributor(signersOrProviders[finalContractLists[k][1].chainId],
                               finalContractLists[k])]
     IN IF collected.threw
          THEN /\ Finish(Rejected("BatchFailed"))
               /\ UNCHANGED facades
          ELSE /\ facades' = constructed
               /\ Finish(IF thrower = {} THEN Fulfilled(constructed)
                         ELSE Rejected("ContractResolutionError"))
  /\ UNCHANGED <<signerOrProvider, contractMetadataList, cacheVars, chainVars, op, args,
                 reads, attempts, netCalls, calculateCalls, prepareCalls>>

\* ---------------------------------------------------- the legacy normalizer
\* A JavaScript object is a function from its field names to values.  A
\* scalar is [kind, v]: a number, a decimal string or a BigNumber object of
\* numeric value v, or undefined.
Num(n) == [kind |-> "number", v |-> n]
Str(n) == [kind |-> "string", v |-> n]
Big(n) == [kind |-> "BigNumber", v |-> n]
Undef == [kind |-> "undefined", v |-> 0]

\* what a call that throws yields: v tells the error
Thrown(error) == [kind |-> "throws", v |-> error]
InvalidBigNumberValue == Thrown("invalid BigNumber value")
IsThrown(value) == "kind" \in DOMAIN value /\ value["kind"] = "throws"

\* BigNumber.from: a BigNumber is returned as it is, a number or a decimal
\* string becomes the BigNumber of the same numeric value, undefined throws
\* "invalid BigNumber value"
BigNumberFrom(value) ==
  CASE value.kind = "BigNumber" -> value
    [] value.kind = "undefined" -> InvalidBigNumberValue
    [] OTHER -> Big(value.v)

\* a property read: undefined for an absent field
Get(object, field) == IF field \in DOMAIN object THEN object[field] ELSE Undef

\* { ...object, field: value }
Spread(object, field, value) ==
  [f \in DOMAIN object \cup {field} |-> IF f = field THEN value ELSE object[f]]

\* the detection test inverted
tierIndexOfInverted(prize) ==
  IF "distributionIndex" \in DOMAIN prize
    THEN Get(prize, "tierIndex")
    ELSE Get(prize, "distributionIndex")

\* 'distributionIndex' in prize ? prize.distributionIndex : prize.tierIndex
tierIndexOf(prize) ==
  IF "distributionIndex" \in DOMAIN prize
    THEN prize["distributionIndex"]
    ELSE Get(prize, "tierIndex")

\* the draw-results conversion rebuilds every prize field by field; a throw
\* of BigNumber.from is the outcome
formatPrize(prize) ==
  LET amount == BigNumberFrom(Get(prize, "amount"))
      pick == BigNumberFrom(Get(prize, "pick"))
  IN CASE IsThrown(amount) -> amount
       [] IsThrown(pick) -> pick
       [] OTHER -> [amount |-> amount, tierIndex |-> tierIndexOf(prize), pick |-> pick]

\* the prize rebuilt from three fields in the extended conversion too
formatExtendedPrizeRebuilt(prize) ==
  [amount |-> Get(prize, "amount"),
   tierIndex |-> tierIndexOf(prize),
   pick |-> Get(prize, "pick")]

\* the extended conversion spreads every prize and sets its tierIndex
formatExtendedPrize(prize) == Spread(prize, "tierIndex", tierIndexOf(prize))

\* the extended conversion: the wrapper is spread and its prizes replaced
formatExtendedDrawResultsFromLegacyDrawResults(legacyDrawResult) ==
  Spread(legacyDrawResult, "prizes",
         [i \in DOMAIN legacyDrawResult["prizes"] |->
            formatExtendedPrize(legacyDrawResult["prizes"][i])])

\* the wrapper spread in the draw-results conversion too
formatDrawResultsSpreadingWrapper(legacyDrawResult) ==
  LET prizes == [i \in DOMAIN legacyDrawResult["prizes"] |->
                   formatPrize(legacyDrawResult["prizes"][i])]
      thrown == { i \in DOMAIN prizes : IsThrown(prizes[i]) }
  IN IF thrown # {}
       THEN prizes[CHOOSE i \in thrown : \A j \in thrown : i <= j]
       ELSE Spread(legacyDrawResult, "prizes", prizes)

\* the draw-results conversion: the wrapper is rebuilt from three fields; the
\* first prize whose amount or pick BigNumber.from refuses makes the call throw
formatDrawResultsFromLegacyDrawResults(legacyDrawResult) ==
  LET prizes == [i \in DOMAIN legacyDrawResult["prizes"] |->
                   formatPrize(legacyDrawResult["prizes"][i])]
      thrown == { i \in DOMAIN prizes : IsThrown(prizes[i]) }
  IN IF thrown # {}
       THEN prizes[CHOOSE i \in thrown : \A j \in thrown : i <= j]
       ELSE [drawId |-> Get(legacyDrawResult, "drawId"),
             totalValue |-> Get(legacyDrawResult, "totalValue"),
             prizes |-> prizes]

\* the prize records a caller may hold: canonical, legacy, or carrying both
\* tier fields; in memory (BigNumber), or parsed from JSON (number, string);
\* with or without a further field
TierValues == {1, 3}
PrizeShapes == {"canonical", "legacy", "both"}
ValueForms == {"BigNumber", "number", "string"}
Scalar(form, n) == [kind |-> form, v |-> n]
PrizeFields(shape, extra) ==
  {"amount", "pick"}
    \cup (IF shape # "legacy" THEN {"tierIndex"} ELSE {})
    \cup (IF shape # "canonical" THEN {"distributionIndex"} ELSE {})
    \cup (IF extra THEN {"memo"} ELSE {})
PrizeRecord(shape, tier, form, extra) ==
  [f \in PrizeFields(shape, extra) |->
     CASE f = "amount" -> Scalar(form, 100)
       [] f = "pick" -> Scalar(form, 5)
       [] f = "distributionIndex" -> Num(tier)
       [] f = "tierIndex" -> Num(IF shape = "both" THEN 0 ELSE tier)
       [] OTHER -> Str(7)]
\* a record that is no prize: it has no amount
PrizeWithoutAmount == [tierIndex |-> Num(1), pick |-> Big(5)]
PrizeRecords ==
  { PrizeRecord(shape, tier, form, extra) :
      shape \in PrizeShapes, tier \in TierValues, form \in ValueForms, extra \in BOOLEAN }
    \cup {PrizeWithoutAmount}
PrizeLists == UNION { [1..n -> PrizeRecords] : n \in 0..MaxPrizes }

\* the wrappers: the three draw-results fields, with or without a further
\* field
DrawResultsRecord(prizes, extended) ==
  [f \in {"drawId", "totalValue", "prizes"} \cup (IF extended THEN {"blockNumber"} ELSE {}) |->
     CASE f = "drawId" -> Num(1)
       [] f = "totalValue" -> Big(100 * Len(prizes))
       [] f = "prizes" -> prizes
       [] OTHER -> Num(42)]
DrawResultsRecords ==
  { DrawResultsRecord(prizes, extended) : prizes \in PrizeLists, extended \in BOOLEAN }

Conversions == {"formatDrawResultsFromLegacyDrawResults",
                "formatExtendedDrawResultsFromLegacyDrawResults"}
Convert(conversion, legacyDrawResult) ==
  IF conversion = "formatDrawResultsFromLegacyDrawResults"
    THEN formatDrawResultsFromLegacyDrawResults(legacyDrawResult)
    ELSE formatExtendedDrawResultsFromLegacyDrawResults(legacyDrawResult)

\* a caller converts the record it holds; the conversion returns or throws
Format(conversion) ==
  /\ phase = "idle"
  /\ op' = conversion
  /\ phase' = "returned"
  /\ attempts' = 1
  /\ LET returned == Convert(conversion, args.drawResults[1])
     IN result' = IF IsThrown(returned) THEN Rejected(returned.v)
                  ELSE Fulfilled(returned)
  /\ UNCHANGED <<facadeVars, cacheVars, chainVars, args, reads, seqVars>>

\* a caller converts again the record the conversion returned
FormatAgain(conversion) ==
  /\ phase = "returned"
  /\ op = conversion
  /\ result.status = "fulfilled"
  /\ attempts < MaxApplications
  /\ args' = [args EXCEPT !.drawResults = << result.value >>]
  /\ attempts' = attempts + 1
  /\ LET returned == Convert(conversion, result.value)
     IN result' = IF IsThrown(returned) THEN Rejected(returned.v)
                  ELSE Fulfilled(returned)
  /\ UNCHANGED <<facadeVars, cacheVars, chainVars, op, phase, reads, seqVars>>

\* ------------------------------------------------------ the specifications
\* the state after `new PrizeDistributor(signerOrProvider, contractMetadataList)`
Constructed ==
  /\ signerOrProvider \in Bindings
  /\ contractMetadataList \in MetadataLists
  /\ metadataField = [k \in HandleKeys |-> NoMetadata]
  /\ contractField = [k \in HandleKeys |-> Undefined]
  /\ cacheWrites = [k \in HandleKeys |-> 0]
  /\ op = "none"
  /\ phase = "idle"
  /\ args = NoArgs
  /\ reads = <<>>
  /\ attempts = 0
  /\ result = Pending
  /\ pc = "idle"
  /\ netCalls = <<>>
  /\ calculateCalls = <<>>
  /\ prepareCalls = <<>>
  /\ facades = <<>>

InitRange ==
  /\ Constructed
  /\ signerOrProvider = ReadOnlyProvider
  /\ drawRing = EmptyRing
  /\ pdRing = EmptyRing

NextRange ==
  \/ PushDraw
  \/ PushPrizeDistribution
  \/ getValidDrawIds
  \/ \E i \in 1..4 : getAndSetEthersContract(i)
  \/ \E i \in 1..4 : ContractCallSettles(i)
  \/ getValidDrawIdsJoin
  \/ getDrawIdsFromDrawBuffer
  \/ getDrawIdsFromPrizeDistributionBuffer
  \/ getDrawIdsFromBufferJoin

SpecRange == InitRange /\ [][NextRange]_vars

\* the batch fetch against buffers in any state, from a facade whose list is
\* complete
Rings ==
  {EmptyRing} \cup { r \in [newest : 1..MaxDrawId, count : 1..BufferCardinality] : r.count <= r.newest }

InitPairs ==
  /\ Constructed
  /\ signerOrProvider = ReadOnlyProvider
  /\ contractMetadataList = CompleteList
  /\ drawRing \in Rings
  /\ pdRing \in Rings

PairsProgress ==
  \/ \E i \in 1..2 : getAndSetEthersContract(i)
  \/ \E i \in 1..2 : ContractCallSettles(i)
  \/ getDrawsAndPrizeDistributionsJoin

NextPairs ==
  \/ getDrawsAndPrizeDistributions
  \/ PairsProgress

\* every issued network call settles and the event loop runs every ready
\* continuation
SpecPairs == InitPairs /\ [][NextPairs]_vars /\ WF_vars(PairsProgress)

\* every operation that joins sibling reads, against buffers that are empty
\* or full
FullRing == [newest |-> MaxDrawId, count |-> BufferCardinality]

InitJoins ==
  /\ Constructed
  /\ signerOrProvider = ReadOnlyProvider
  /\ contractMetadataList = CompleteList
  /\ drawRing \in {EmptyRing, FullRing}
  /\ pdRing \in {EmptyRing, FullRing}

NextJoins ==
  \/ getValidDrawIds
  \/ getDrawIdsFromDrawBuffer
  \/ getDrawIdsFromPrizeDistributionBuffer
  \/ getDrawsAndPrizeDistributions
  \/ \E i \in 1..4 : getAndSetEthersContract(i)
  \/ \E i \in 1..4 : ContractCallSettles(i)
  \/ getValidDrawIdsJoin
  \/ getDrawIdsFromBufferJoin
  \/ getDrawsAndPrizeDistributionsJoin

SpecJoins == InitJoins /\ [][NextJoins]_vars

\* a facade bound to a provider or to a signer, on either chain, against
\* buffers in any state
InitClaims ==
  /\ Constructed
  /\ drawRing \in Rings
  /\ pdRing \in Rings

NextClaims ==
  \/ getUsersPrizes
  \/ getAndSetEthersContract(1)
  \/ ContractCallSettles(1)
  \/ getUsersPrizesFetchBalance
  \/ getUsersPrizesReturn
  \/ getDraw
  \/ getDrawReturn
  \/ getUsersPrizesByDrawId
  \/ getUsersPrizesByDrawIdGetUsersPrizes
  \/ claimPrizesByDrawResults
  \/ claimPrizesByDrawResultsValidateNetwork
  \/ claimPrizesByDrawResultsSubmit
  \/ claimPrizesByDrawResultsReturn
  \/ claimPrizesByDraw
  \/ claimPrizesByDrawGetUsersPrizes
  \/ validatedRead
  \/ validatedReadReturn
  \/ getClaimedEvents
  \/ getClaimedEventsGetUsersClaimedEvents

SpecClaims == InitClaims /\ [][NextClaims]_vars

\* the initialization over every linked contract list
InitInitialize ==
  /\ Constructed
  /\ signerOrProvider = ReadOnlyProvider
  /\ contractMetadataList = CompleteList
  /\ drawRing = EmptyRing
  /\ pdRing = EmptyRing

NextInitialize ==
  \/ initializePrizeDistributors
  \/ \E i \in ChainIds : fetchClaimableDrawAddressesByChainId(i)
  \/ initializePrizeDistributorsLink

SpecInitialize == InitInitialize /\ [][NextInitialize]_vars

\* two facades, each of any distributor address on any chain; the operations
\* run on the first
DistributorAddresses == {"0xPD", "0xPD2"}
FacadeList(distributor, chain) ==
  << Metadata("PrizeDistributor", chain, distributor),
     Metadata("DrawCalculator", chain, "0xDC"),
     Metadata("DrawCalculatorTimelock", chain, "0xTL"),
     Metadata("DrawBuffer", chain, DrawBufferAddress),
     Metadata("PrizeDistributionBuffer", chain, PrizeDistributionBufferAddress) >>
FacadeLists ==
  { FacadeList(distributor, chain) :
      distributor \in DistributorAddresses, chain \in {FacadeChainId, OtherChainId} }

InitIdentity ==
  /\ signerOrProvider \in Bindings
  /\ contractMetadataList \in FacadeLists
  /\ metadataField = [k \in HandleKeys |-> NoMetadata]
  /\ contractField = [k \in HandleKeys |-> Undefined]
  /\ cacheWrites = [k \in HandleKeys |-> 0]
  /\ op = "none"
  /\ phase = "idle"
  /\ args = NoArgs
  /\ reads = <<>>
  /\ attempts = 0
  /\ result = Pending
  /\ pc = "idle"
  /\ netCalls = <<>>
  /\ calculateCalls = <<>>
  /\ prepareCalls = <<>>
  /\ \E list \in FacadeLists : facades = << PrizeDistributor(ReadOnlyProvider, list) >>
  /\ drawRing = [newest |-> MaxDrawId, count |-> BufferCardinality]
  /\ pdRing = [newest |-> MaxDrawId, count |-> BufferCardinality]

SpecIdentity == InitIdentity /\ [][NextClaims]_vars

\* a caller holding any draw results record
InitNormalize ==
  /\ signerOrProvider = ReadOnlyProvider
  /\ contractMetadataList = CompleteList
  /\ metadataField = [k \in HandleKeys |-> NoMetadata]
  /\ contractField = [k \in HandleKeys |-> Undefined]
  /\ cacheWrites = [k \in HandleKeys |-> 0]
  /\ op = "none"
  /\ phase = "idle"
  /\ \E legacyDrawResult \in DrawResultsRecords :
       args = [NoArgs EXCEPT !.drawResults = << legacyDrawResult >>]
  /\ reads = <<>>
  /\ attempts = 0
  /\ result = Pending
  /\ pc = "idle"
  /\ netCalls = <<>>
  /\ calculateCalls = <<>>
  /\ prepareCalls = <<>>
  /\ facades = <<>>
  /\ drawRing = EmptyRing
  /\ pdRing = EmptyRing

NextNormalize ==
  \/ Format("formatDrawResultsFromLegacyDrawResults")
  \/ Format("formatExtendedDrawResultsFromLegacyDrawResults")
  \/ FormatAgain("formatDrawResultsFromLegacyDrawResults")
  \/ FormatAgain("formatExtendedDrawResultsFromLegacyDrawResults")

SpecNormalize == InitNormalize /\ [][NextNormalize]_vars

\* ================================================================== claims
IsOp(name) == op = name
Returned(name) == op = name /\ phase = "returned"
AllFulfilled(tasks) == \A i \in DOMAIN tasks : tasks[i].pc = "fulfilled"
ReadId(i) == reads[i].value[1].drawId
Greatest(S) == CHOOSE m \in S : \A x \in S : x <= m
Least(S) == CHOOSE m \in S : \A x \in S : m <= x
Elements(seq) == { seq[i] : i \in DOMAIN seq }
Ascending(seq) == \A i \in DOMAIN seq : \A j \in DOMAIN seq : i < j => seq[i] < seq[j]
Occurrences(seq, v) == Cardinality({ i \in DOMAIN seq : seq[i] = v })
FulfilledRead(fn, drawId) ==
  [fn |-> fn, pc |-> "fulfilled", value |-> << [drawId |-> drawId] >>]
FourReads(oldestDraw, newestDraw, oldestPd, newestPd) ==
  << FulfilledRead("getOldestPrizeDistribution", oldestPd),
     FulfilledRead("getNewestPrizeDistribution", newestPd),
     FulfilledRead("getOldestDraw", oldestDraw),
     FulfilledRead("getNewestDraw", newestDraw) >>

\* C1: when all four reads of getValidDrawIds succeed, the result is exactly
\* the ascending sequence of every integer from max(oldest draw id, oldest
\* prize distribution id) to min(newest draw id, newest prize distribution
\* id), and empty when the upper bound is below the lower one; bounds (2,10)
\* and (5,8) give [5,6,7,8], bounds (2,4) and (6,9) give [].
C1_ValidRange ==
  /\ (Returned("getValidDrawIds") /\ AllFulfilled(reads)) =>
       LET lower == Greatest({ReadId(1), ReadId(3)})
           upper == Least({ReadId(2), ReadId(4)})
       IN /\ result.status = "fulfilled"
          /\ Elements(result.value) = lower..upper
          /\ Ascending(result.value)
          /\ (upper < lower => result.value = <<>>)
  /\ validIds(FourReads(2, 10, 5, 8)) = <<5, 6, 7, 8>>
  /\ validIds(FourReads(2, 4, 6, 9)) = <<>>

\* the buffers overlap in part: the bounds come from different buffers
C1_Witness ==
  /\ Returned("getValidDrawIds")
  /\ AllFulfilled(reads)
  /\ ReadId(3) < ReadId(1)
  /\ ReadId(4) < ReadId(2)
  /\ Len(result.value) >= 1

\* C2: if any of the four reads of getValidDrawIds fails, also while
\* resolving its buffer handle, the operation completes normally with the
\* empty sequence; it never rejects.
C2_FailedReadGivesEmpty ==
  Returned("getValidDrawIds") =>
    /\ result.status = "fulfilled"
    /\ (AnyRejected(reads) => result.value = <<>>)

\* the prize distribution buffer cannot be resolved from the list, both draw
\* reads succeeded
C2_Witness ==
  /\ Returned("getValidDrawIds")
  /\ ~getMetadataAndContract("PrizeDistributionBuffer", contractMetadataList,
                             PrizeDistributionBufferAddress).ok
  /\ reads[1].pc = "rejected"
  /\ reads[3].pc = "fulfilled"
  /\ reads[4].pc = "fulfilled"
  /\ result = Fulfilled(<<>>)

JoinStep ==
  /\ IsOp("getDrawsAndPrizeDistributions")
  /\ phase = "running"
  /\ AllSettled(reads)
  /\ <<phase, attempts>>' # <<phase, attempts>>

\* C3: whenever a batch fetch of getDrawsAndPrizeDistributions fails, the
\* next attempt is made with the list sorted ascending and its single
\* largest id removed; the value returned is the list of pairs of the first
\* list on which both fetches succeed.
C3_RetryDropsLargest ==
  [][ JoinStep =>
        IF AnyRejected(reads)
          THEN /\ phase' = "running"
               /\ attempts' = attempts + 1
               /\ Len(args'.drawIds) = Len(args.drawIds) - 1
               /\ \A i \in DOMAIN args'.drawIds : \A j \in DOMAIN args'.drawIds :
                     i < j => args'.drawIds[i] <= args'.drawIds[j]
               /\ \A v \in 1..MaxDrawId :
                     Occurrences(args'.drawIds, v) =
                       Occurrences(args.drawIds, v)
                         - (IF v = Greatest(Elements(args.drawIds)) THEN 1 ELSE 0)
          ELSE /\ phase' = "returned"
               /\ result'.status = "fulfilled"
               /\ Len(result'.value) = Len(args.drawIds)
               /\ \A i \in DOMAIN args.drawIds :
                     /\ result'.value[i].draw = Draw(args.drawIds[i])
                     /\ result'.value[i].prizeDistribution = PrizeDistribution(args.drawIds[i])
    ]_vars

\* ids [3,2,2] where only the prize distribution of draw 3 is missing: the
\* second attempt used [2,2] and two pairs were returned
C3_Witness ==
  /\ Returned("getDrawsAndPrizeDistributions")
  /\ args.requested = <<3, 2, 2>>
  /\ InRing(drawRing, 3)
  /\ ~InRing(pdRing, 3)
  /\ attempts = 2
  /\ args.drawIds = <<2, 2>>
  /\ Len(result.value) = 2

\* C4: getDrawsAndPrizeDistributions terminates: at most length + 1
\* attempts, every retry on a strictly shorter list, the empty list cannot
\* fail and returns the empty list, and every call returns.
C4_Terminates ==
  /\ [](IsOp("getDrawsAndPrizeDistributions") =>
          /\ attempts >= 1
          /\ attempts + Len(args.drawIds) = Len(args.requested) + 1
          /\ (args.drawIds = <<>> => AllFulfilled(reads))
          /\ (phase = "returned" /\ args.drawIds = <<>> => result = Fulfilled(<<>>)))
  /\ ((IsOp("getDrawsAndPrizeDistributions") /\ phase = "running")
        ~> Returned("getDrawsAndPrizeDistributions"))

\* every attempt failed until the list was empty
C4_Witness ==
  /\ Returned("getDrawsAndPrizeDistributions")
  /\ Len(args.requested) = MaxIds
  /\ attempts = MaxIds + 1
  /\ result = Fulfilled(<<>>)

\* C5: each lazily resolved handle is resolved, and its cache field written,
\* at most once per facade.
C5_CacheWrittenOnce == \A key \in HandleKeys : cacheWrites[key] <= 1

\* the nested or direct run of claimPrizesByDrawResults has begun
InClaimPrizesByDrawResults ==
  /\ op \in {"claimPrizesByDrawResults", "claimPrizesByDraw"}
  /\ args.drawResults # <<>>
ClaimSubmitted == \E i \in DOMAIN netCalls : netCalls[i] = "prizeDistributor.claim"
SignerReadFailed ==
  /\ result.error = "CallFailed"
  /\ pc \in {"claimPrizesByDrawResults:getAddress", "claimPrizesByDrawResults:getChainId"}
\* some network call was issued by the operation: by its own code or by a read
IssuedNetworkCall == netCalls # <<>> \/ reads # <<>>
ValidationErrors ==
  {"SignerRequiredError", "NetworkMismatchError", "NothingToClaimError", "AddressValidationError"}

\* C6: getUsersPrizes, called directly or by getUsersPrizesByDrawId with the
\* draw it fetched, with a fetched balance of zero returns {drawId,
\* totalValue 0, prizes []} and never invokes calculateDrawResults; with a
\* nonzero balance the routine is invoked exactly once, with the fetched prize
\* distribution, the draw and a user whose normalizedBalances is [balance].
C6_ZeroBalanceShortcut ==
  (op \in {"getUsersPrizes", "getUsersPrizesByDrawId"} /\ args.normalizedBalance # <<>>) =>
    LET balance == args.normalizedBalance[1]
        draw == args.draw[1]
    IN IF balance = 0
         THEN /\ calculateCalls = <<>>
              /\ result = Fulfilled(<< [drawId |-> draw.drawId, totalValue |-> 0, prizes |-> <<>>] >>)
         ELSE /\ Len(calculateCalls) = 1
              /\ calculateCalls[1].prizeDistribution = reads[1].value[1]
              /\ calculateCalls[1].prizeDistribution = PrizeDistribution(draw.drawId)
              /\ calculateCalls[1].draw = draw
              /\ calculateCalls[1].user =
                   [address |-> args.usersAddress, normalizedBalances |-> <<balance>>]

\* a zero balance for a draw whose calculation would have found a prize
C6_Witness ==
  /\ Returned("getUsersPrizes")
  /\ args.normalizedBalance = <<0>>
  /\ result.status = "fulfilled"
  /\ result.value[1].totalValue = 0
  /\ calculateCalls = <<>>

\* C7 as stated: claimPrizesByDrawResults fails with the nothing-to-claim
\* error whenever totalValue is zero, and never submits the claim.
C7_AsStated ==
  (Returned("claimPrizesByDrawResults") /\ args.drawResults[1].totalValue = 0) =>
    /\ result = Rejected("NothingToClaimError")
    /\ ~ClaimSubmitted
    /\ prepareCalls = <<>>

\* C7: with a total value of zero claimPrizesByDrawResults fails and neither
\* prepares nor submits the claim; the failure is the nothing-to-claim error
\* when the facade is bound to a signer on its chain whose address and network
\* reads succeed, and the earlier check's or read's error otherwise.
C7_NothingToClaim ==
  (InClaimPrizesByDrawResults /\ args.drawResults[1].totalValue = 0) =>
    /\ ~ClaimSubmitted
    /\ prepareCalls = <<>>
    /\ result.status # "fulfilled"
    /\ (phase = "returned" =>
          /\ result.status = "rejected"
          /\ (result.error = "NothingToClaimError" <=>
                /\ validateIsSigner(signerOrProvider)
                /\ signerOrProvider.chainId = chainId
                /\ ~SignerReadFailed))

C7_Witness ==
  /\ Returned("claimPrizesByDrawResults")
  /\ args.drawResults[1].totalValue = 0
  /\ result = Rejected("NothingToClaimError")
  /\ netCalls = <<"signer.getAddress", "signer.getChainId">>

\* C8 as stated: signer-required error for a provider, network-mismatch error
\* whenever the signer's chain differs from the facade's; no claim submitted
\* in either case, and a claim only with a signer on the facade's chain and a
\* nonzero total value.
C8_AsStated ==
  /\ (InClaimPrizesByDrawResults /\ phase = "returned") =>
       /\ (~validateIsSigner(signerOrProvider) => result = Rejected("SignerRequiredError"))
       /\ ((validateIsSigner(signerOrProvider) /\ signerOrProvider.chainId # chainId)
              => result = Rejected("NetworkMismatchError"))
  /\ ClaimSubmitted =>
       /\ validateIsSigner(signerOrProvider)
       /\ signerOrProvider.chainId = chainId
       /\ args.drawResults[1].totalValue # 0

\* C8: signer-required error for a provider; for a signer on another chain
\* the network-mismatch error, unless the read of the signer's address or
\* network itself fails and its error propagates; no claim is submitted in
\* any of these cases, and a claim is submitted only with a signer on the
\* facade's chain and a nonzero total value.
C8_SignerAndNetwork ==
  /\ (op \in {"claimPrizesByDrawResults", "claimPrizesByDraw"} /\ phase = "returned"
        /\ ~validateIsSigner(signerOrProvider)) =>
       /\ result = Rejected("SignerRequiredError")
       /\ ~IssuedNetworkCall
  /\ (InClaimPrizesByDrawResults /\ phase = "returned"
        /\ validateIsSigner(signerOrProvider) /\ signerOrProvider.chainId # chainId) =>
       /\ result.status = "rejected"
       /\ (result.error = "NetworkMismatchError" \/ SignerReadFailed)
       /\ (result.error = "NetworkMismatchError" => ~SignerReadFailed)
  /\ ClaimSubmitted =>
       /\ validateIsSigner(signerOrProvider)
       /\ signerOrProvider.chainId = chainId
       /\ args.drawResults[1].totalValue # 0
       /\ Len(prepareCalls) = 1

\* a signer on the other chain claims a nonzero total
C8_Witness ==
  /\ Returned("claimPrizesByDrawResults")
  /\ signerOrProvider.kind = "signer"
  /\ signerOrProvider.chainId # chainId
  /\ args.drawResults[1].totalValue # 0
  /\ result = Rejected("NetworkMismatchError")
  /\ ~ClaimSubmitted

\* C9 as stated: every validation error is raised before the operation has
\* issued any network call.
C9_AsStated ==
  (phase = "returned" /\ result.error \in ValidationErrors) => ~IssuedNetworkCall

\* C9: the signer-required and address-validation errors are raised before
\* the operation has issued any network call; the network-mismatch and
\* nothing-to-claim errors are raised after the signer's address and network
\* have been read (in claimPrizesByDraw also after the reads of
\* getUsersPrizes), and before the claim is prepared or submitted.
C9_ValidationOrder ==
  phase = "returned" =>
    /\ (result.error \in {"SignerRequiredError", "AddressValidationError"} =>
          ~IssuedNetworkCall)
    /\ (result.error \in {"NetworkMismatchError", "NothingToClaimError"} =>
          /\ SubSeq(netCalls, Len(netCalls) - 1, Len(netCalls))
               = <<"signer.getAddress", "signer.getChainId">>
          /\ (op = "claimPrizesByDrawResults" => Len(netCalls) = 2 /\ reads = <<>>)
          /\ ~ClaimSubmitted
          /\ prepareCalls = <<>>)

\* claimPrizesByDraw finds nothing to claim after its reads and before the
\* claim
C9_Witness ==
  /\ Returned("claimPrizesByDraw")
  /\ result = Rejected("NothingToClaimError")
  /\ reads[1].pc = "fulfilled"
  /\ netCalls = <<"signer.getAddress", "drawCalculator.getNormalizedBalancesForDrawIds",
                  "signer.getAddress", "signer.getChainId">>

\* C10: if the batched address read of any chain fails, the initialization
\* rejects and no facade is constructed or returned for any chain.
C10_BatchFailureAborts ==
  (IsOp("initializePrizeDistributors") /\ AnyRejected(reads)) =>
    /\ facades = <<>>
    /\ result.status # "fulfilled"
    /\ (phase = "returned" => result.status = "rejected" /\ result.value = <<>>)

\* one chain's batch failed, another chain's succeeded, and the list would
\* have given a facade for every chain
C10_Witness ==
  /\ Returned("initializePrizeDistributors")
  /\ \E i \in DOMAIN reads : reads[i].pc = "rejected"
  /\ \E i \in DOMAIN reads : reads[i].pc = "fulfilled"
  /\ args.contracts = FlatList([chain \in ChainIds |-> "complete"], 1)
  /\ result.status = "rejected"
  /\ facades = <<>>

\* ------------------------------------------------- the legacy normalizer
\* a conversion has returned: the record it was given and the record it
\* returned
Converted == op \in Conversions /\ phase = "returned" /\ result.status = "fulfilled"
Given == args.drawResults[1]
Produced == result.value
CanonicalPrizeFields == {"amount", "tierIndex", "pick"}
TierFields == {"tierIndex", "distributionIndex"}
IsCanonicalPrize(prize) ==
  /\ DOMAIN prize = CanonicalPrizeFields
  /\ prize["amount"].kind = "BigNumber"
  /\ prize["pick"].kind = "BigNumber"
IsCanonical(conversion, drawResults) ==
  /\ \A i \in DOMAIN drawResults["prizes"] : IsCanonicalPrize(drawResults["prizes"][i])
  /\ conversion = "formatDrawResultsFromLegacyDrawResults"
       => DOMAIN drawResults = {"drawId", "totalValue", "prizes"}
MappedTier(prize) ==
  IF "distributionIndex" \in DOMAIN prize
    THEN prize["distributionIndex"]
    ELSE prize["tierIndex"]

\* C11: under both conversions an already-canonical record is returned
\* equal to the input, and converting a returned record again returns an
\* equal record: convert(convert(r)) = convert(r).
C11_Idempotent ==
  Converted =>
    /\ (IsCanonical(op, Given) => Produced = Given)
    /\ (attempts >= 2 => Produced = Given)
    /\ Convert(op, Produced) = Produced

\* a record with a legacy prize went through the extended conversion twice
C11_Witness ==
  /\ Converted
  /\ op = "formatExtendedDrawResultsFromLegacyDrawResults"
  /\ attempts = 2
  /\ \E i \in DOMAIN Given["prizes"] :
        /\ "distributionIndex" \in DOMAIN Given["prizes"][i]
        /\ Given["prizes"][i]["tierIndex"] = Num(3)
  /\ Produced = Given

\* C12: under both conversions the number and order of prizes are kept,
\* every output prize has the tierIndex of its input prize (its
\* distributionIndex when it has one, its tierIndex otherwise), and a prize
\* of the fields tier, amount and pick yields exactly the canonical record
\* {tierIndex, amount, pick}.
C12_TierMapping ==
  Converted =>
    /\ Len(Produced["prizes"]) = Len(Given["prizes"])
    /\ \A i \in DOMAIN Given["prizes"] :
         LET prize == Given["prizes"][i]
             out == Produced["prizes"][i]
         IN /\ out["tierIndex"] = MappedTier(prize)
            /\ ({"amount", "pick"} \subseteq DOMAIN prize
                  /\ DOMAIN prize \subseteq CanonicalPrizeFields \cup TierFields) =>
                 /\ DOMAIN out = CanonicalPrizeFields
                 /\ out["amount"].v = prize["amount"].v
                 /\ out["pick"].v = prize["pick"].v

\* C13: the draw-results conversion returns exactly drawId, totalValue and
\* prizes, the first two equal to the input's; the extended conversion
\* returns every wrapper field of the input unchanged except prizes, which
\* holds the normalized prizes.
C13_WrapperFields ==
  Converted =>
    /\ IF op = "formatDrawResultsFromLegacyDrawResults"
         THEN /\ DOMAIN Produced = {"drawId", "totalValue", "prizes"}
              /\ Produced["drawId"] = Given["drawId"]
              /\ Produced["totalValue"] = Given["totalValue"]
         ELSE /\ DOMAIN Produced = DOMAIN Given
              /\ \A f \in DOMAIN Given \ {"prizes"} : Produced[f] = Given[f]
    /\ Len(Produced["prizes"]) = Len(Given["prizes"])
    /\ \A i \in DOMAIN Given["prizes"] :
         Produced["prizes"][i]["tierIndex"] = MappedTier(Given["prizes"][i])

\* the draw-results conversion dropped a further wrapper field of a record
\* with prizes
C13_Witness ==
  /\ Converted
  /\ op = "formatDrawResultsFromLegacyDrawResults"
  /\ attempts = 1
  /\ "blockNumber" \in DOMAIN Given
  /\ Len(Given["prizes"]) = MaxPrizes
  /\ DOMAIN Produced = {"drawId", "totalValue", "prizes"}

\* C14 as stated: under both conversions every field of an input prize
\* other than the tier field is in the output prize with the same value.
C14_AsStated ==
  Converted =>
    \A i \in DOMAIN Given["prizes"] :
      \A f \in DOMAIN Given["prizes"][i] \ TierFields :
        /\ f \in DOMAIN Produced["prizes"][i]
        /\ Produced["prizes"][i][f] = Given["prizes"][i][f]

\* C14: the extended conversion keeps every field of an input prize other
\* than tierIndex with the same value; the draw-results conversion returns
\* prizes of exactly amount, tierIndex and pick, where amount and pick are
\* the big integers of the input's numeric values (the same value when the
\* input held a big integer) and every further field is dropped.
C14_PrizeFields ==
  Converted =>
    \A i \in DOMAIN Given["prizes"] :
      LET prize == Given["prizes"][i]
          out == Produced["prizes"][i]
      IN IF op = "formatDrawResultsFromLegacyDrawResults"
           THEN /\ DOMAIN out = CanonicalPrizeFields
                /\ out["amount"] = Big(prize["amount"].v)
                /\ out["pick"] = Big(prize["pick"].v)
                /\ prize["amount"].kind = "BigNumber" => out["amount"] = prize["amount"]
                /\ prize["pick"].kind = "BigNumber" => out["pick"] = prize["pick"]
           ELSE /\ DOMAIN out = DOMAIN prize \cup {"tierIndex"}
                /\ \A f \in DOMAIN prize \ {"tierIndex"} : out[f] = prize[f]

\* the draw-results conversion was given a prize parsed from JSON that
\* carries a further field
C14_Witness ==
  /\ Converted
  /\ op = "formatDrawResultsFromLegacyDrawResults"
  /\ attempts = 1
  /\ \E i \in DOMAIN Given["prizes"] :
        /\ "memo" \in DOMAIN Given["prizes"][i]
        /\ Given["prizes"][i]["amount"] = Str(100)
        /\ Produced["prizes"][i]["amount"] = Big(100)
        /\ "memo" \notin DOMAIN Produced["prizes"][i]

\* ------------------------------------------- the per-buffer draw id lists
PerBufferRange(name, key) ==
  Returned(name) =>
    /\ Len(reads) = 2
    /\ \A i \in DOMAIN reads : KeyOf(reads[i].fn) = key
    /\ result.status = "fulfilled"
    /\ AnyRejected(reads) => result.value = <<>>
    /\ AllFulfilled(reads) =>
         /\ Elements(result.value) = ReadId(1)..ReadId(2)
         /\ Ascending(result.value)
         /\ Len(result.value) = Cardinality(ReadId(1)..ReadId(2))
         /\ (ReadId(2) < ReadId(1) => result.value = <<>>)

\* C15: getDrawIdsFromDrawBuffer returns the ascending integers from the
\* oldest to the newest draw id it read from the draw buffer (empty when
\* oldest > newest) and the empty sequence when either read failed;
\* getDrawIdsFromPrizeDistributionBuffer does the same from the prize
\* distribution buffer; each operation reads its own buffer only.
C15_PerBufferRange ==
  /\ PerBufferRange("getDrawIdsFromDrawBuffer", "drawBuffer")
  /\ PerBufferRange("getDrawIdsFromPrizeDistributionBuffer", "prizeDistributionsBuffer")

\* the prize distribution buffer holds 2 and 3 while the draw buffer is
\* empty
C15_Witness ==
  /\ Returned("getDrawIdsFromPrizeDistributionBuffer")
  /\ AllFulfilled(reads)
  /\ drawRing = EmptyRing
  /\ result = Fulfilled(<<2, 3>>)

\* ------------------------------------------- the final lists and the facades
\* the grouped lists of the linking step for the flat list given
GroupedLists ==
  sortContractsByContractTypeAndChildren(
    extendContractWithChildren(args.contracts, collectAddresses(reads).addresses,
                               "PrizeDistributor"),
    "PrizeDistributor")
\* the first record of a type on a chain in the flat list, if any
FirstOf(contractType, chain) ==
  LET at == { i \in DOMAIN args.contracts :
                /\ args.contracts[i].type = contractType
                /\ args.contracts[i].chainId = chain }
  IN IF at = {} THEN <<>> ELSE << args.contracts[Least(at)] >>
FinalList(grouped) ==
  LET chain == grouped[1].chainId
  IN grouped \o FirstOf("DrawBuffer", chain) \o FirstOf("PrizeDistributionBuffer", chain)
             \o FirstOf("Ticket", chain) \o FirstOf("DrawCalculatorTimelock", chain)
FacadeOf(k, grouped) ==
  /\ facades[k].contractMetadataList = FinalList(grouped)
  /\ facades[k].signerOrProvider = signersOrProviders[grouped[1].chainId]
  /\ facades[k].chainId = grouped[1].chainId
  /\ facades[k].address = grouped[1].address
\* the constructor finds exactly one record of each type it looks up
Resolves(list) ==
  \A contractType \in {"PrizeDistributor", "DrawCalculator", "DrawCalculatorTimelock"} :
    Cardinality({ i \in DOMAIN list : list[i].type = contractType }) = 1
Linked == Returned("initializePrizeDistributors") /\ ~AnyRejected(reads)

\* C16 as stated: each final list is its grouped list followed by the first
\* DrawBuffer, PrizeDistributionBuffer, Ticket and DrawCalculatorTimelock of
\* its chain, and exactly one facade is constructed per final list, bound to
\* the signer or provider of that chain.
C16_AsStated ==
  Linked =>
    /\ Len(facades) = Len(GroupedLists)
    /\ \A k \in DOMAIN GroupedLists : FacadeOf(k, GroupedLists[k])

\* C16: each final list is its grouped list followed by the first
\* DrawBuffer, PrizeDistributionBuffer, Ticket and DrawCalculatorTimelock of
\* its chain in the flat list; when every final list resolves exactly one
\* PrizeDistributor, DrawCalculator and DrawCalculatorTimelock, one facade
\* per final list is constructed and returned, in order, bound to the signer
\* or provider of its chain; otherwise the initialization fails at the first
\* final list that does not, and returns no facade.
C16_FinalLists ==
  Linked =>
    LET failing == { k \in DOMAIN GroupedLists : ~Resolves(FinalList(GroupedLists[k])) }
    IN /\ \A k \in DOMAIN facades : FacadeOf(k, GroupedLists[k])
       /\ IF failing = {}
            THEN /\ Len(facades) = Len(GroupedLists)
                 /\ result = Fulfilled(facades)
            ELSE /\ Len(facades) = Least(failing) - 1
                 /\ result = Rejected("ContractResolutionError")

\* every chain has a distributor, chain 2 has two draw buffers: three facades
\* are returned and the second one holds the first draw buffer of the list
C16_Witness ==
  /\ Linked
  /\ Len(facades) = MaxChains
  /\ result = Fulfilled(facades)
  /\ Cardinality({ i \in DOMAIN args.contracts :
                     /\ args.contracts[i].type = "DrawBuffer"
                     /\ args.contracts[i].chainId = 2 }) = 2
  /\ \E i \in DOMAIN facades[2].contractMetadataList :
       facades[2].contractMetadataList[i] = Metadata("DrawBuffer", 2, AddressOn("DBx", 2))
  /\ Len(facades[2].contractMetadataList) = 6

\* --------------------------------------------------------- the joins
\* the operations that join sibling reads, and the reads each one starts
JoinOps == {"getValidDrawIds", "getDrawIdsFromDrawBuffer",
            "getDrawIdsFromPrizeDistributionBuffer", "getDrawsAndPrizeDistributions"}
Siblings(name) ==
  CASE name = "getValidDrawIds" ->
         << "getOldestPrizeDistribution", "getNewestPrizeDistribution",
            "getOldestDraw", "getNewestDraw" >>
    [] name = "getDrawIdsFromDrawBuffer" -> << "getOldestDraw", "getNewestDraw" >>
    [] name = "getDrawIdsFromPrizeDistributionBuffer" ->
         << "getOldestPrizeDistribution", "getNewestPrizeDistribution" >>
    [] OTHER -> << "getDraws", "getPrizeDistributions" >>
Joining == op \in JoinOps /\ phase = "running"

\* C17: in getValidDrawIds, the two per-buffer operations and
\* getDrawsAndPrizeDistributions every sibling read is started by the call
\* itself, before the first await; the operation returns or retries only
\* once every sibling has settled; and a step that settles one sibling,
\* rejected or fulfilled, leaves every other sibling as it was, still able
\* to settle.
C17_AllSettle ==
  /\ [](Joining =>
          /\ [i \in DOMAIN reads |-> reads[i].fn] = Siblings(op)
          /\ \A j \in DOMAIN reads :
               ~Settled(reads[j]) =>
                 ENABLED (getAndSetEthersContract(j) \/ ContractCallSettles(j)))
  /\ [][ Joining =>
           /\ (phase' # phase \/ attempts' # attempts \/ result' # result)
                => AllSettled(reads)
           /\ \A i \in DOMAIN reads :
                (attempts' = attempts /\ reads'[i] # reads[i]) =>
                   \A j \in DOMAIN reads \ {i} : reads'[j] = reads[j] ]_vars

\* getValidDrawIds has returned: its first read was rejected and
\* the sibling reads of both buffers were fulfilled
C17_Witness ==
  /\ Returned("getValidDrawIds")
  /\ reads[1].pc = "rejected"
  /\ reads[2].pc = "fulfilled"
  /\ reads[3].pc = "fulfilled"
  /\ reads[4].pc = "fulfilled"
  /\ result = Fulfilled(<<>>)

\* ------------------------------------------------------- the facade identity
This == PrizeDistributor(signerOrProvider, contractMetadataList)

\* C18: two facades return the same id exactly when they have the same
\* distributor address and the same chain id, and the id of a facade is the
\* same in every state, whatever operation has run.
C18_Identity ==
  /\ [](\A k \in DOMAIN facades :
          id(This) = id(facades[k])
            <=> (This.address = facades[k].address /\ This.chainId = facades[k].chainId))
  /\ [][id(This)' = id(This)]_vars

\* a claim has been submitted from a facade that shares its distributor
\* address with a facade on another chain
C18_Witness ==
  /\ Returned("claimPrizesByDrawResults")
  /\ "prizeDistributor.claim" \in Elements(netCalls)
  /\ facades[1].address = This.address
  /\ facades[1].chainId # This.chainId
  /\ id(facades[1]) # id(This)


\* ------------------------------------ getValidDrawIds under protocol writes
\* the step at which getValidDrawIds returns
ValidDrawIdsReturn ==
  /\ IsOp("getValidDrawIds")
  /\ phase = "running"
  /\ phase' = "returned"

\* C19: whatever the protocol appended between the four reads,
\* every id returned by getValidDrawIds is within [oldest, newest] of both
\* buffers at the moment the operation returns.
C19_SnapshotConsistency ==
  [][ ValidDrawIdsReturn =>
        \A i \in DOMAIN result'.value :
          /\ InRing(drawRing', result'.value[i])
          /\ InRing(pdRing', result'.value[i]) ]_vars

====
